---- MODULE Spec2Model ----
(***************************************************************************)
(* A model of the DEX decoder of src/src/lib.rs: Dex::new,                 *)
(* Header::from_file, Header::from_reader, Header::is_magic_valid and      *)
(* Header::get_dex_version.                                                *)
(*                                                                         *)
(* The input file is a byte stream of physical length file_len.  The       *)
(* decoder consumes it field by field; the bytes of a field are chosen     *)
(* when the decoder reads them (raw records every byte consumed so far),   *)
(* so a behaviour of the model is one decode of one input file.            *)
(* usize is taken to be 64 bits wide: every value is a u32 widened to      *)
(* usize, so no sum or product of the decoder overflows.                   *)
(***************************************************************************)
EXTENDS Integers, Sequences, FiniteSets, TLC

VARIABLES
    entry,      \* the entry point called: "from_reader", "from_file", "dex_new"
    verify,     \* the verify argument of from_file / Dex::new
    file_len,   \* physical length of the file / of the in-memory buffer
    pos,        \* number of bytes the reader has consumed
    pc,         \* position of the call in the code
    raw,        \* raw bytes of every header field consumed so far
    loc,        \* local variables of Header::from_reader
    hres,       \* value returned by Header::from_reader
    result,     \* value returned by the entry point
    version,    \* outcome of Header::get_dex_version on the returned header
    dex         \* local variables of Dex::new

vars == <<entry, verify, file_len, pos, pc, raw, loc, hres, result, version, dex>>

---------------------------------------------------------------------------
(* Program constants, lib.rs:201-203 *)
ENDIAN_CONSTANT == 305419896
REVERSE_ENDIAN_CONSTANT == 2018915346
HEADER_SIZE == 112

(* Option<usize> *)
None == <<>>
Some(x) == <<x>>

---------------------------------------------------------------------------
(* byteorder::ReadBytesExt::read_u32::<LittleEndian> / <BigEndian> on the  *)
(* four bytes w, and u32::swap_bytes.                                      *)
LE32(w) == w[1] + 256 * w[2] + 65536 * w[3] + 16777216 * w[4]

BE32(w) == w[4] + 256 * w[3] + 65536 * w[2] + 16777216 * w[1]

swap_bytes(x) ==
    (x % 256) * 16777216 + ((x \div 256) % 256) * 65536
    + ((x \div 65536) % 256) * 256 + ((x \div 16777216) % 256)

(* The endian-conditional read repeated at lib.rs:381-385 and after. *)
read_u32(endian_tag, w) ==
    IF endian_tag = ENDIAN_CONSTANT THEN LE32(w) ELSE BE32(w)

(* The four bytes that hold v in little / big endian order. *)
EncLE(v) ==
    <<v % 256, (v \div 256) % 256, (v \div 65536) % 256, (v \div 16777216) % 256>>

EncBE(v) ==
    <<(v \div 16777216) % 256, (v \div 65536) % 256, (v \div 256) % 256, v % 256>>

---------------------------------------------------------------------------
(* Error values (error.rs constructors, by the arguments lib.rs passes). *)
NoResult == [kind |-> "None"]
Ok(h) == [kind |-> "Ok", header |-> h]
Panic(why) == [kind |-> "Panic", why |-> why]
IoError == [kind |-> "Io"]
invalid_magic(m) == [kind |-> "InvalidMagic", magic |-> m]
invalid_endian_tag(t) == [kind |-> "InvalidEndianTag", tag |-> t]
invalid_header_size(s) == [kind |-> "InvalidHeaderSize", size |-> s]
invalid_file_size(actual, expected) ==
    [kind |-> "InvalidFileSize", actual |-> actual, expected |-> expected]
mismatched_offsets(name, actual, expected) ==
    [kind |-> "MismatchedOffsets", field |-> name, actual |-> actual,
     expected |-> expected]
MapOffsetZero == [kind |-> "MismatchedOffsets", msg |-> "map_offset was 0x00"]
MapOffsetOutsideData(lo, hi, at) ==
    [kind |-> "MismatchedOffsets", msg |-> "map_offset must be in data",
     lo |-> lo, hi |-> hi, at |-> at]
DataSizeNotMultiple(s) ==
    [kind |-> "Header", msg |-> "data_size must be a 4-byte multiple", value |-> s]
DataNotAtEof ==
    [kind |-> "Header", msg |-> "data section must end at the EOF if there are no links"]
LinkNotAtEof ==
    [kind |-> "Header", msg |-> "link_data section must end at the end of file"]

---------------------------------------------------------------------------
(* is_magic_valid without the upper bound on the last digit *)
is_magic_valid_no_upper(magic) ==
    /\ SubSeq(magic, 1, 4) = <<100, 101, 120, 10>>
    /\ magic[8] = 0
    /\ magic[5] >= 48 /\ magic[6] >= 48 /\ magic[7] >= 48
    /\ magic[5] <= 57 /\ magic[6] <= 57

(* Header::is_magic_valid, lib.rs:651-655 *)
is_magic_valid(magic) ==
    /\ SubSeq(magic, 1, 4) = <<100, 101, 120, 10>>
    /\ magic[8] = 0
    /\ magic[5] >= 48 /\ magic[6] >= 48 /\ magic[7] >= 48
    /\ magic[5] <= 57 /\ magic[6] <= 57 /\ magic[7] <= 57

---------------------------------------------------------------------------
(* The input files explored.  A file is either the magic "dex\n035\0"      *)
(* followed by header fields drawn from the sets below, or any magic of    *)
(* Magics followed by the fields of the minimal header (little endian,     *)
(* file_size 0x70, no table, no link, empty data section at 0x70).         *)
(* Dex::new with verification, which only passes the file on to            *)
(* Header::from_file, is explored on the files of the second kind.         *)
MaxRecords == 2

Magic035 == <<100, 101, 120, 10, 48, 51, 53, 0>>

MagicPrefixes == {<<100, 101, 120, 10>>, <<100, 101, 121, 10>>, <<68, 69, 88, 10>>}

MagicDigits == {47, 48, 50, 51, 53, 57, 58, 65}

MagicTerminators == {0, 48}

Magics ==
    {p \o <<a, b, c, t>> : p \in MagicPrefixes, a \in MagicDigits,
                           b \in MagicDigits, c \in MagicDigits,
                           t \in MagicTerminators}

ChecksumWords == {<<1, 2, 3, 4>>}

Signatures == {[i \in 1..20 |-> i]}

FileSizeValues == {111, 112, 113, 115, 116, 120}

HeaderSizeValues == {112, 96}

EndianTagWords == {EncLE(ENDIAN_CONSTANT), EncLE(REVERSE_ENDIAN_CONSTANT), EncLE(0)}

LinkSizeValues == {0, 4}

LinkOffsetValues == {0, 116, 120}

MapOffsetValues == {0, 112, 116}

DataSizeValues == {0, 2, 4}

(* (entry point, verify, physical length) of the calls explored *)
Calls ==
    {<<"from_reader", FALSE, 36>>, <<"from_reader", FALSE, 112>>,
     <<"from_file", FALSE, 111>>, <<"from_file", FALSE, 112>>,
     <<"from_file", FALSE, 113>>, <<"from_file", TRUE, 112>>,
     <<"dex_new", FALSE, 148>>, <<"dex_new", TRUE, 112>>}

BothOrders(S) == {EncLE(v) : v \in S} \cup {EncBE(v) : v \in S}

(* Fields read before the endian tag: either byte order may have written them. *)
PreRich == loc.magic = Magic035 /\ ~(entry = "dex_new" /\ verify)

FileSizeWords == IF PreRich THEN BothOrders(FileSizeValues) ELSE {EncLE(112)}

HeaderSizeWords == IF PreRich THEN BothOrders(HeaderSizeValues) ELSE {EncLE(112)}

TagWords == IF PreRich THEN EndianTagWords ELSE {EncLE(ENDIAN_CONSTANT)}

(* Fields read after the endian tag are written in the order the tag declares. *)
BodyRich == PreRich /\ loc.file_size \in FileSizeValues

Enc(v) == IF loc.endian_tag = ENDIAN_CONSTANT THEN EncLE(v) ELSE EncBE(v)

BodyWords(rich, minimal) == {Enc(v) : v \in IF BodyRich THEN rich ELSE {minimal}}

RecordsSoFar ==
    loc.string_ids_size + loc.type_ids_size + loc.prototype_ids_size
    + loc.field_ids_size + loc.method_ids_size + loc.class_defs_size

TableSizeWords == BodyWords(0..(MaxRecords - RecordsSoFar), 0)

TableOffsetWords ==
    BodyWords({0, HEADER_SIZE, loc.current_offset, loc.current_offset + 4}, 0)

DataOffsetWords ==
    BodyWords({HEADER_SIZE, HEADER_SIZE + 4, loc.current_offset}, HEADER_SIZE)

---------------------------------------------------------------------------
FieldNames ==
    {"magic", "checksum", "signature", "file_size", "header_size", "endian_tag",
     "link_size", "link_offset", "map_offset",
     "string_ids_size", "string_ids_offset", "type_ids_size", "type_ids_offset",
     "prototype_ids_size", "prototype_ids_offset", "field_ids_size",
     "field_ids_offset", "method_ids_size", "method_ids_offset",
     "class_defs_size", "class_defs_offset", "data_size", "data_offset"}

NoBytes == [f \in FieldNames |-> <<>>]

NoLocals ==
    [magic |-> <<>>, checksum |-> 0, signature |-> <<>>, file_size |-> 0,
     header_size |-> 0, endian_tag |-> 0, current_offset |-> 0,
     link_size |-> 0, link_offset |-> 0, map_offset |-> 0,
     string_ids_size |-> 0, string_ids_offset |-> 0,
     type_ids_size |-> 0, type_ids_offset |-> 0,
     prototype_ids_size |-> 0, prototype_ids_offset |-> 0,
     field_ids_size |-> 0, field_ids_offset |-> 0,
     method_ids_size |-> 0, method_ids_offset |-> 0,
     class_defs_size |-> 0, class_defs_offset |-> 0,
     data_size |-> 0, data_offset |-> 0]

(* Dex::new before its locals exist: offset (lib.rs:46), the number of     *)
(* records the running loop has pushed, and the six vectors of records.    *)
NoDex == [offset |-> 0, n |-> 0, ids |-> [t \in 1..6 |-> <<>>]]

Init ==
    /\ \E c \in Calls : entry = c[1] /\ verify = c[2] /\ file_len = c[3]
    /\ pos = 0
    /\ pc = IF entry = "from_file" \/ (entry = "dex_new" /\ verify)
               THEN "open" ELSE "magic"
    /\ dex = NoDex
    /\ raw = NoBytes
    /\ loc = NoLocals
    /\ hres = NoResult
    /\ result = NoResult
    /\ version = NoResult

---------------------------------------------------------------------------
(* read_exact / read_u32 fail with an I/O error when fewer than n bytes remain *)
Avail(n) == pos + n <= file_len

(* from_file_tail without the comparison against the physical length *)
from_file_tail_unchecked(hr) ==
    IF hr.kind # "Ok" THEN hr
    ELSE IF verify THEN Panic("unimplemented")
    ELSE Ok(hr.header)

(* Header::from_file after the call of from_reader, lib.rs:328-335 *)
from_file_tail(hr) ==
    IF hr.kind # "Ok" THEN hr
    ELSE IF file_len # hr.header.file_size
         THEN invalid_file_size(file_len, Some(hr.header.file_size))
    ELSE IF verify THEN Panic("unimplemented")
    ELSE Ok(hr.header)

(* from_reader returns hr; the entry point returns with it.  Dex::new with *)
(* verify goes through from_file (lib.rs:34), without it it goes on to the *)
(* tables with the header from_reader returned (lib.rs:41-47).             *)
Return(hr) ==
    /\ hres' = hr
    /\ IF entry = "dex_new" /\ ~verify /\ hr.kind = "Ok"
          THEN /\ pc' = "dex_strings"
               /\ dex' = [dex EXCEPT !.offset = HEADER_SIZE]
               /\ UNCHANGED result
          ELSE /\ pc' = "done"
               /\ result' = IF entry = "from_reader" THEN hr ELSE from_file_tail(hr)
               /\ UNCHANGED dex

Continue(next) ==
    /\ pc' = next
    /\ UNCHANGED <<hres, result, dex>>

ShortRead ==
    /\ Return(IoError)
    /\ UNCHANGED <<pos, raw, loc>>

(* Header::from_file up to the call of from_reader, lib.rs:322-328 *)
FromFileOpen ==
    /\ pc = "open"
    /\ IF file_len < HEADER_SIZE
          THEN /\ result' = invalid_file_size(file_len, None)
               /\ pc' = "done"
          ELSE /\ pc' = "magic"
               /\ UNCHANGED result
    /\ UNCHANGED <<entry, verify, file_len, pos, raw, loc, hres, version, dex>>

(* lib.rs:340-345 *)
ReadMagic ==
    /\ pc = "magic"
    /\ IF ~Avail(8) THEN ShortRead
       ELSE \E m \in Magics :
              /\ raw' = [raw EXCEPT !.magic = m]
              /\ pos' = pos + 8
              /\ loc' = [loc EXCEPT !.magic = m]
              /\ IF ~is_magic_valid(m)
                    THEN Return(invalid_magic(m))
                    ELSE Continue("checksum")
    /\ UNCHANGED <<entry, verify, file_len, version>>

(* lib.rs:346-347 *)
ReadChecksum ==
    /\ pc = "checksum"
    /\ IF ~Avail(4) THEN ShortRead
       ELSE \E w \in ChecksumWords :
              /\ raw' = [raw EXCEPT !.checksum = w]
              /\ pos' = pos + 4
              /\ loc' = [loc EXCEPT !.checksum = LE32(w)]
              /\ Continue("signature")
    /\ UNCHANGED <<entry, verify, file_len, version>>

(* lib.rs:348-350 *)
ReadSignature ==
    /\ pc = "signature"
    /\ IF ~Avail(20) THEN ShortRead
       ELSE \E s \in Signatures :
              /\ raw' = [raw EXCEPT !.signature = s]
              /\ pos' = pos + 20
              /\ loc' = [loc EXCEPT !.signature = s]
              /\ Continue("file_size")
    /\ UNCHANGED <<entry, verify, file_len, version>>

(* lib.rs:351-352 *)
ReadFileSize ==
    /\ pc = "file_size"
    /\ IF ~Avail(4) THEN ShortRead
       ELSE \E w \in FileSizeWords :
              /\ raw' = [raw EXCEPT !.file_size = w]
              /\ pos' = pos + 4
              /\ loc' = [loc EXCEPT !.file_size = LE32(w)]
              /\ Continue("header_size")
    /\ UNCHANGED <<entry, verify, file_len, version>>

(* lib.rs:353-354 *)
ReadHeaderSize ==
    /\ pc = "header_size"
    /\ IF ~Avail(4) THEN ShortRead
       ELSE \E w \in HeaderSizeWords :
              /\ raw' = [raw EXCEPT !.header_size = w]
              /\ pos' = pos + 4
              /\ loc' = [loc EXCEPT !.header_size = LE32(w)]
              /\ Continue("endian_tag")
    /\ UNCHANGED <<entry, verify, file_len, version>>

(* resolve that leaves the early fields as they were read *)
resolve_never(x, endian_tag) == x

(* The retroactive correction of lib.rs:359-363: the value a field read as *)
(* little endian takes once the tag is known.                              *)
resolve(x, endian_tag) ==
    IF endian_tag = REVERSE_ENDIAN_CONSTANT THEN swap_bytes(x) ELSE x

(* check_sizes that wants a file longer than its header *)
check_sizes_strict(header_size, file_size) ==
    IF header_size # HEADER_SIZE THEN invalid_header_size(header_size)
    ELSE IF file_size <= HEADER_SIZE THEN invalid_file_size(0, Some(file_size))
    ELSE NoResult

(* check_sizes with the file size checked before the header size *)
check_sizes_file_first(header_size, file_size) ==
    IF file_size < HEADER_SIZE THEN invalid_file_size(0, Some(file_size))
    ELSE IF header_size # HEADER_SIZE THEN invalid_header_size(header_size)
    ELSE NoResult

(* The checks of lib.rs:369-376 on the resolved sizes: the error returned, *)
(* or NoResult when both pass.                                             *)
check_sizes(header_size, file_size) ==
    IF header_size # HEADER_SIZE THEN invalid_header_size(header_size)
    ELSE IF file_size < HEADER_SIZE THEN invalid_file_size(0, Some(file_size))
    ELSE NoResult

(* lib.rs:355-378 *)
ReadEndianTag ==
    /\ pc = "endian_tag"
    /\ IF ~Avail(4) THEN ShortRead
       ELSE \E w \in TagWords :
              LET endian_tag == LE32(w)
                  checksum == resolve(loc.checksum, endian_tag)
                  file_size == resolve(loc.file_size, endian_tag)
                  header_size == resolve(loc.header_size, endian_tag)
              IN /\ raw' = [raw EXCEPT !.endian_tag = w]
                 /\ pos' = pos + 4
                 /\ IF endian_tag # REVERSE_ENDIAN_CONSTANT /\ endian_tag # ENDIAN_CONSTANT
                       THEN /\ loc' = [loc EXCEPT !.endian_tag = endian_tag]
                            /\ Return(invalid_endian_tag(endian_tag))
                       ELSE /\ loc' = [loc EXCEPT !.endian_tag = endian_tag,
                                                  !.checksum = checksum,
                                                  !.file_size = file_size,
                                                  !.header_size = header_size,
                                                  !.current_offset = HEADER_SIZE]
                            /\ IF check_sizes(header_size, file_size) # NoResult
                                  THEN Return(check_sizes(header_size, file_size))
                                  ELSE Continue("link")
    /\ UNCHANGED <<entry, verify, file_len, version>>

(* check_link that lets a link offset stand without a link size *)
check_link_none(link_size, link_offset) == NoResult

(* The check of lib.rs:392-394 *)
check_link(link_size, link_offset) ==
    IF link_size = 0 /\ link_offset # 0
       THEN mismatched_offsets("link_offset", link_offset, 0)
       ELSE NoResult

(* lib.rs:380-394 *)
ReadLink ==
    /\ pc = "link"
    /\ IF ~Avail(8) THEN ShortRead
       ELSE \E sw \in BodyWords(LinkSizeValues, 0), ow \in BodyWords(LinkOffsetValues, 0) :
              LET link_size == read_u32(loc.endian_tag, sw)
                  link_offset == read_u32(loc.endian_tag, ow)
              IN /\ raw' = [raw EXCEPT !.link_size = sw, !.link_offset = ow]
                 /\ pos' = pos + 8
                 /\ loc' = [loc EXCEPT !.link_size = link_size,
                                       !.link_offset = link_offset]
                 /\ IF check_link(link_size, link_offset) # NoResult
                       THEN Return(check_link(link_size, link_offset))
                       ELSE Continue("map_offset")
    /\ UNCHANGED <<entry, verify, file_len, version>>

(* lib.rs:396-405 *)
ReadMapOffset ==
    /\ pc = "map_offset"
    /\ IF ~Avail(4) THEN ShortRead
       ELSE \E w \in BodyWords(MapOffsetValues, HEADER_SIZE) :
              LET map_offset == read_u32(loc.endian_tag, w)
              IN /\ raw' = [raw EXCEPT !.map_offset = w]
                 /\ pos' = pos + 4
                 /\ loc' = [loc EXCEPT !.map_offset = map_offset]
                 /\ IF map_offset = 0
                       THEN Return(MapOffsetZero)
                       ELSE Continue("string_ids")
    /\ UNCHANGED <<entry, verify, file_len, version>>

(* The block repeated for each of the six tables (lib.rs:407-427 for the   *)
(* string ids): read size and offset, check the offset against the running *)
(* offset, advance the running offset by size * width.  `expected` is the  *)
(* expected offset the error reports when size > 0.                        *)
(* The two checks of the block (lib.rs:419-426 for the string ids): the    *)
(* error returned, or NoResult when both pass.                             *)
check_table(offset_f, size, offset, current_offset, expected) ==
    IF size > 0 /\ offset # current_offset
       THEN mismatched_offsets(offset_f, offset, expected)
    ELSE IF size = 0 /\ offset # 0
       THEN mismatched_offsets(offset_f, offset, 0)
    ELSE NoResult

ReadTable(here, next, size_f, offset_f, width, expected) ==
    /\ pc = here
    /\ IF ~Avail(8) THEN ShortRead
       ELSE \E sw \in TableSizeWords, ow \in TableOffsetWords :
              LET size == read_u32(loc.endian_tag, sw)
                  offset == read_u32(loc.endian_tag, ow)
                  err == check_table(offset_f, size, offset, loc.current_offset, expected)
              IN /\ raw' = [raw EXCEPT ![size_f] = sw, ![offset_f] = ow]
                 /\ pos' = pos + 8
                 /\ IF err # NoResult
                       THEN /\ loc' = [loc EXCEPT ![size_f] = size, ![offset_f] = offset]
                            /\ Return(err)
                       ELSE /\ loc' = [loc EXCEPT ![size_f] = size, ![offset_f] = offset,
                                                  !.current_offset = @ + size * width]
                            /\ Continue(next)
    /\ UNCHANGED <<entry, verify, file_len, version>>

(* lib.rs:407-427 *)
ReadStringIds ==
    ReadTable("string_ids", "type_ids", "string_ids_size", "string_ids_offset",
              4, HEADER_SIZE)

(* lib.rs:429-449 *)
ReadTypeIds ==
    ReadTable("type_ids", "prototype_ids", "type_ids_size", "type_ids_offset",
              4, loc.current_offset)

(* ReadPrototypeIds advancing the running offset by 4 bytes per record *)
ReadPrototypeIds_width4 ==
    ReadTable("prototype_ids", "field_ids", "prototype_ids_size",
              "prototype_ids_offset", 4, loc.current_offset)

(* lib.rs:451-471 *)
ReadPrototypeIds ==
    ReadTable("prototype_ids", "field_ids", "prototype_ids_size",
              "prototype_ids_offset", 3 * 4, loc.current_offset)

(* lib.rs:473-493 *)
ReadFieldIds ==
    ReadTable("field_ids", "method_ids", "field_ids_size", "field_ids_offset",
              2 * 2 + 4, loc.current_offset)

(* lib.rs:495-515 *)
ReadMethodIds ==
    ReadTable("method_ids", "class_defs", "method_ids_size", "method_ids_offset",
              2 * 2 + 4, loc.current_offset)

(* lib.rs:517-537 *)
ReadClassDefs ==
    ReadTable("class_defs", "data_size", "class_defs_size", "class_defs_offset",
              8 * 4, loc.current_offset)

(* lib.rs:539-549 *)
ReadDataSize ==
    /\ pc = "data_size"
    /\ IF ~Avail(4) THEN ShortRead
       ELSE \E w \in BodyWords(DataSizeValues, 0) :
              LET data_size == read_u32(loc.endian_tag, w)
              IN /\ raw' = [raw EXCEPT !.data_size = w]
                 /\ pos' = pos + 4
                 /\ loc' = [loc EXCEPT !.data_size = data_size]
                 /\ IF data_size % 4 # 0
                       THEN Return(DataSizeNotMultiple(data_size))
                       ELSE Continue("data_offset")
    /\ UNCHANGED <<entry, verify, file_len, version>>

(* The Header value built at lib.rs:591-647 from the locals l. *)
MakeHeader(l) ==
    [magic |-> l.magic, checksum |-> l.checksum, signature |-> l.signature,
     file_size |-> l.file_size, header_size |-> l.header_size,
     endian_tag |-> l.endian_tag,
     link_size |-> IF l.link_size = 0 THEN None ELSE Some(l.link_size),
     link_offset |-> IF l.link_offset = 0 THEN None ELSE Some(l.link_offset),
     map_offset |-> l.map_offset,
     string_ids_size |-> l.string_ids_size,
     string_ids_offset |->
         IF l.string_ids_offset > 0 THEN Some(l.string_ids_offset) ELSE None,
     type_ids_size |-> l.type_ids_size,
     type_ids_offset |->
         IF l.type_ids_offset > 0 THEN Some(l.type_ids_offset) ELSE None,
     prototype_ids_size |-> l.prototype_ids_size,
     prototype_ids_offset |->
         IF l.prototype_ids_size > 0 THEN Some(l.prototype_ids_offset) ELSE None,
     field_ids_size |-> l.field_ids_size,
     field_ids_offset |->
         IF l.field_ids_size > 0 THEN Some(l.field_ids_offset) ELSE None,
     method_ids_size |-> l.method_ids_size,
     method_ids_offset |->
         IF l.method_ids_size > 0 THEN Some(l.method_ids_offset) ELSE None,
     class_defs_size |-> l.class_defs_size,
     class_defs_offset |->
         IF l.class_defs_size > 0 THEN Some(l.class_defs_offset) ELSE None,
     data_size |-> l.data_size, data_offset |-> l.data_offset]

(* map_offset_outside_data without the upper bound *)
map_offset_before_data(l) == l.map_offset < l.data_offset

(* The condition of lib.rs:561 *)
map_offset_outside_data(l) ==
    l.map_offset < l.data_offset \/ l.map_offset > l.data_offset + l.data_size

(* data_not_at_eof that only rejects a data section running past the EOF *)
data_past_eof(l) ==
    l.link_size = 0 /\ l.data_offset + l.data_size > l.file_size

(* The condition of lib.rs:569 *)
data_not_at_eof(l) ==
    l.link_size = 0 /\ l.data_offset + l.data_size # l.file_size

(* FinalChecks with the end of the data section checked before map_offset *)
FinalChecks_eof_first(l) ==
    LET current_offset == l.current_offset + l.data_size
    IN IF data_not_at_eof(l)
          THEN DataNotAtEof
       ELSE IF map_offset_outside_data(l)
          THEN MapOffsetOutsideData(l.data_offset, l.data_offset + l.data_size,
                                    l.map_offset)
       ELSE IF l.link_size # 0 /\ l.link_offset = 0
          THEN mismatched_offsets("link_offset", 0, current_offset)
       ELSE IF l.link_size # 0 /\ l.link_offset # 0 /\ l.link_offset # current_offset
          THEN mismatched_offsets("link_offset", l.link_offset,
                                  l.data_offset + l.data_size)
       ELSE IF l.link_size # 0 /\ l.link_offset # 0
               /\ l.link_offset + l.link_size # l.file_size
          THEN LinkNotAtEof
       ELSE Ok(MakeHeader(l))

(* The checks of lib.rs:561-589 and the value returned at lib.rs:591, for  *)
(* the locals l in which data_offset has been read and current_offset is   *)
(* still the running offset reached after the class definitions.           *)
FinalChecks(l) ==
    LET current_offset == l.current_offset + l.data_size
    IN IF map_offset_outside_data(l)
          THEN MapOffsetOutsideData(l.data_offset, l.data_offset + l.data_size,
                                    l.map_offset)
       ELSE IF data_not_at_eof(l)
          THEN DataNotAtEof
       ELSE IF l.link_size # 0 /\ l.link_offset = 0
          THEN mismatched_offsets("link_offset", 0, current_offset)
       ELSE IF l.link_size # 0 /\ l.link_offset # 0 /\ l.link_offset # current_offset
          THEN mismatched_offsets("link_offset", l.link_offset,
                                  l.data_offset + l.data_size)
       ELSE IF l.link_size # 0 /\ l.link_offset # 0
               /\ l.link_offset + l.link_size # l.file_size
          THEN LinkNotAtEof
       ELSE Ok(MakeHeader(l))

(* lib.rs:551-648 *)
ReadDataOffset ==
    /\ pc = "data_offset"
    /\ IF ~Avail(4) THEN ShortRead
       ELSE \E w \in DataOffsetWords :
              LET data_offset == read_u32(loc.endian_tag, w)
                  l == [loc EXCEPT !.data_offset = data_offset]
                  r == FinalChecks(l)
              IN /\ raw' = [raw EXCEPT !.data_offset = w]
                 /\ pos' = pos + 4
                 /\ loc' = IF r.kind = "Ok"
                              THEN [l EXCEPT !.current_offset = @ + l.data_size]
                              ELSE l
                 /\ Return(r)
    /\ UNCHANGED <<entry, verify, file_len, version>>

(* Header::get_dex_version, lib.rs:663-665, on the header the entry point  *)
(* returned.  The arithmetic is u8: a product or sum above 255 panics in a *)
(* build with overflow checks and wraps modulo 256 in one without.         *)
get_dex_version(magic, overflow_checks) ==
    LET a == (magic[5] - 48) * 100
        b == (magic[6] - 48) * 10
        c == magic[7] - 48
    IN IF a > 255 \/ (a % 256) + b > 255 \/ ((a + b) % 256) + c > 255
          THEN IF overflow_checks THEN Panic("attempt to add or multiply with overflow")
               ELSE [kind |-> "Version", value |-> (a + b + c) % 256]
          ELSE [kind |-> "Version", value |-> a + b + c]

GetDexVersion ==
    /\ pc = "done"
    /\ result.kind = "Ok"
    /\ version = NoResult
    /\ \E overflow_checks \in BOOLEAN :
          version' = get_dex_version(result.header.magic, overflow_checks)
    /\ UNCHANGED <<entry, verify, file_len, pos, pc, raw, loc, hres, result, dex>>

---------------------------------------------------------------------------
(* Dex::new after the header, lib.rs:46-192.                               *)

(* read_uint that reads little endian whatever the header says *)
read_uint_little(little_endian, w) ==
    IF Len(w) = 2 THEN w[1] + 256 * w[2] ELSE LE32(w)

(* byteorder read_u16 / read_u32 on the bytes w, in the header's order *)
read_uint(little_endian, w) ==
    IF Len(w) = 2
       THEN IF little_endian THEN w[1] + 256 * w[2] ELSE w[2] + 256 * w[1]
       ELSE IF little_endian THEN LE32(w) ELSE BE32(w)

(* Widths in bytes of the integers read for one record of each table:      *)
(* lib.rs:50-54, 61-65, 72-86, 94-108, 116-130, 138-177.                   *)
RecordLayout ==
    <<<<4>>, <<4>>, <<4, 4, 4>>, <<2, 2, 4>>, <<2, 2, 4>>, <<4, 4, 4, 4, 4, 4, 4, 4>>>>

RECURSIVE SumSeq(_)
SumSeq(q) == IF q = <<>> THEN 0 ELSE Head(q) + SumSeq(Tail(q))

(* The bytes of one record in the file: byte k of a record holds k. *)
RecordBytes(layout) == {[k \in 1..SumSeq(layout) |-> k]}

(* The integers one record's reads return, in reading order. *)
RECURSIVE decode_record(_, _, _)
decode_record(bytes, layout, little_endian) ==
    IF layout = <<>> THEN <<>>
    ELSE <<read_uint(little_endian, SubSeq(bytes, 1, Head(layout)))>>
         \o decode_record(SubSeq(bytes, Head(layout) + 1, Len(bytes)),
                          Tail(layout), little_endian)

(* ClassDefData::new (types.rs) returns a record or an error. *)
ClassDefRejected == [kind |-> "Header", msg |-> "invalid class definition"]

class_def_data_new(fields, accepted) ==
    IF accepted THEN Ok(fields) ELSE ClassDefRejected

(* One of the six loops of Dex::new (lib.rs:47-56 for the string ids):     *)
(* while fewer than `size` records are pushed, read one record of table t  *)
(* and push it; a short read ends the call with the I/O error.  The loops  *)
(* of the string and type ids run to Vec::capacity(), which is the         *)
(* capacity asked for, the header's size.                                  *)
DexLoop(here, next, t, size, fallible) ==
    /\ pc = here
    /\ IF dex.n >= size
          THEN /\ pc' = next
               /\ dex' = [dex EXCEPT !.n = 0]
               /\ UNCHANGED <<pos, result>>
       ELSE IF ~Avail(SumSeq(RecordLayout[t]))
          THEN /\ pc' = "done"
               /\ result' = IoError
               /\ UNCHANGED <<pos, dex>>
       ELSE \E b \in RecordBytes(RecordLayout[t]), accepted \in {TRUE} \cup {~fallible} :
              LET fields == decode_record(b, RecordLayout[t],
                                          hres.header.endian_tag = ENDIAN_CONSTANT)
                  made == class_def_data_new(fields, accepted)
              IN /\ pos' = pos + SumSeq(RecordLayout[t])
                 /\ IF made.kind = "Ok"
                       THEN /\ dex' = [dex EXCEPT !.n = @ + 1,
                                                  !.offset = @ + SumSeq(RecordLayout[t]),
                                                  !.ids[t] = Append(@, fields)]
                            /\ UNCHANGED <<pc, result>>
                       ELSE /\ pc' = "done"
                            /\ result' = made
                            /\ UNCHANGED dex
    /\ UNCHANGED <<entry, verify, file_len, raw, loc, hres, version>>

(* lib.rs:47-56 *)
DexStringIds ==
    DexLoop("dex_strings", "dex_types", 1, hres.header.string_ids_size, FALSE)

(* lib.rs:58-67 *)
DexTypeIds ==
    DexLoop("dex_types", "dex_prototypes", 2, hres.header.type_ids_size, FALSE)

(* lib.rs:69-89 *)
DexPrototypeIds ==
    DexLoop("dex_prototypes", "dex_fields", 3, hres.header.prototype_ids_size, FALSE)

(* lib.rs:91-111 *)
DexFieldIds ==
    DexLoop("dex_fields", "dex_methods", 4, hres.header.field_ids_size, FALSE)

(* lib.rs:113-133 *)
DexMethodIds ==
    DexLoop("dex_methods", "dex_classes", 5, hres.header.method_ids_size, FALSE)

(* lib.rs:135-187 *)
DexClassDefs ==
    DexLoop("dex_classes", "dex_end", 6, hres.header.class_defs_size, TRUE)

(* lib.rs:189-192 *)
DexUnimplemented ==
    /\ pc = "dex_end"
    /\ pc' = "done"
    /\ result' = Panic("unimplemented")
    /\ UNCHANGED <<entry, verify, file_len, pos, raw, loc, hres, version, dex>>

Next ==
    \/ FromFileOpen
    \/ ReadMagic
    \/ ReadChecksum
    \/ ReadSignature
    \/ ReadFileSize
    \/ ReadHeaderSize
    \/ ReadEndianTag
    \/ ReadLink
    \/ ReadMapOffset
    \/ ReadStringIds
    \/ ReadTypeIds
    \/ ReadPrototypeIds
    \/ ReadFieldIds
    \/ ReadMethodIds
    \/ ReadClassDefs
    \/ ReadDataSize
    \/ ReadDataOffset
    \/ GetDexVersion
    \/ DexStringIds
    \/ DexTypeIds
    \/ DexPrototypeIds
    \/ DexFieldIds
    \/ DexMethodIds
    \/ DexClassDefs
    \/ DexUnimplemented

Spec == Init /\ [][Next]_vars

---------------------------------------------------------------------------
(* Vocabulary of the properties.                                           *)

Read(f) == raw[f] # <<>>

Done == pc = "done"

(* The byte order the tag bytes declare, and the value of a 32-bit field   *)
(* in that order, computed from the raw bytes alone.                       *)
TagOf == LE32(raw.endian_tag)

TagValid == Read("endian_tag") /\ TagOf \in {ENDIAN_CONSTANT, REVERSE_ENDIAN_CONSTANT}

Declared(f) == IF TagOf = REVERSE_ENDIAN_CONSTANT THEN BE32(raw[f]) ELSE LE32(raw[f])

TableOffsetFields ==
    <<"string_ids_offset", "type_ids_offset", "prototype_ids_offset",
      "field_ids_offset", "method_ids_offset", "class_defs_offset">>

TableSizeFields ==
    <<"string_ids_size", "type_ids_size", "prototype_ids_size",
      "field_ids_size", "method_ids_size", "class_defs_size">>

RecordWidth == <<4, 4, 12, 8, 8, 32>>

(* The whole header was read and it is the minimal header but for file_size *)
MinimalButFileSize ==
    /\ Read("data_offset")
    /\ TagValid
    /\ \A i \in 1..6 : Declared(TableSizeFields[i]) = 0 /\ Declared(TableOffsetFields[i]) = 0
    /\ Declared("link_size") = 0 /\ Declared("link_offset") = 0
    /\ Declared("data_size") = 0 /\ Declared("data_offset") = 112
    /\ Declared("map_offset") = 112 /\ Declared("header_size") = 112

---------------------------------------------------------------------------
(* C1 as stated: when from_file (verify = false) has returned on a file    *)
(* that is the minimal header but for a declared file_size different from  *)
(* the physical length (0x71 against 0x70), it returned                    *)
(* InvalidFileSize(physical length, Some(declared)) and from_reader on the *)
(* same bytes returned a Header.                                           *)
C1_AsStated ==
    (/\ Done /\ entry = "from_file" /\ ~verify
     /\ MinimalButFileSize
     /\ file_len = 112 /\ Declared("file_size") = 113)
    => /\ result = invalid_file_size(file_len, Some(Declared("file_size")))
       /\ hres.kind = "Ok"

(* C1: from_file (verify = false) on a file of at least 0x70 bytes returns *)
(* InvalidFileSize(physical length, Some(declared file_size)) exactly when *)
(* from_reader accepts the bytes and the file_size of its Header differs   *)
(* from the physical length; it returns the Header when they are equal and *)
(* from_reader's own error when from_reader rejects the bytes.  The        *)
(* minimal header with file_size 0x71 is rejected by from_reader with the  *)
(* Header error "data section must end at the EOF", and so by from_file.   *)
C1_FromFileSizeCheck ==
    (Done /\ entry = "from_file" /\ ~verify /\ file_len >= HEADER_SIZE)
    => /\ (hres.kind = "Ok" /\ Declared("file_size") # file_len)
              => result = invalid_file_size(file_len, Some(Declared("file_size")))
       /\ (hres.kind = "Ok" /\ Declared("file_size") = file_len) => result = hres
       /\ hres.kind # "Ok" => result = hres
       /\ (result.kind = "InvalidFileSize" /\ result.expected # None)
              => (hres.kind = "Ok" \/ hres.kind = "InvalidFileSize")
       /\ (MinimalButFileSize /\ Declared("file_size") = 113)
              => hres = DataNotAtEof /\ result = DataNotAtEof

(* A padded file: from_reader accepts, from_file reports the two lengths. *)
C1_Witness ==
    /\ Done /\ entry = "from_file" /\ ~verify
    /\ hres.kind = "Ok"
    /\ file_len = 113 /\ hres.header.file_size = 112
    /\ result = invalid_file_size(113, Some(112))

---------------------------------------------------------------------------
(* C2: a Header returned by from_reader with a link section has            *)
(* link_offset = data_offset + data_size and link_offset + link_size =     *)
(* file_size.                                                              *)
C2_LinkPlacement ==
    (Done /\ hres.kind = "Ok" /\ hres.header.link_size # None)
    => /\ hres.header.link_offset = Some(hres.header.data_offset + hres.header.data_size)
       /\ hres.header.link_offset[1] + hres.header.link_size[1] = hres.header.file_size

---------------------------------------------------------------------------
(* C3 as stated: whenever at least 0x70 bytes are available and the        *)
(* header_size bytes are not 0x70 in either byte order, from_reader        *)
(* returned InvalidHeaderSize, whatever the other fields are.              *)
C3_AsStated ==
    (/\ Done /\ file_len >= HEADER_SIZE /\ Read("header_size")
     /\ LE32(raw.header_size) # 112 /\ BE32(raw.header_size) # 112)
    => hres.kind = "InvalidHeaderSize"

(* C3: for every input of at least 0x70 bytes with a valid magic and a     *)
(* valid endian tag whose header_size, in the byte order of the tag, is    *)
(* not 0x70, from_reader returns InvalidHeaderSize(header_size), whatever  *)
(* file_size and the fields after the tag are.                             *)
C3_InvalidHeaderSize ==
    (Done /\ file_len >= HEADER_SIZE /\ TagValid /\ Declared("header_size") # 112)
    => hres = invalid_header_size(Declared("header_size"))

(* header_size 0x60 together with a file_size below 0x70 *)
C3_Witness ==
    /\ Done /\ TagValid
    /\ Declared("header_size") = 96 /\ Declared("file_size") = 111
    /\ hres = invalid_header_size(96)

---------------------------------------------------------------------------
(* C4: on every accepted magic get_dex_version returns                     *)
(* (d4-'0')*100 + (d5-'0')*10 + (d6-'0').                                  *)
C4_VersionExact ==
    version # NoResult
    => version = [kind |-> "Version",
                  value |-> (raw.magic[5] - 48) * 100 + (raw.magic[6] - 48) * 10
                            + (raw.magic[7] - 48)]

---------------------------------------------------------------------------
(* C5: from_reader accepts the magic iff bytes 0..4 are 0x64 0x65 0x78     *)
(* 0x0a, bytes 4, 5, 6 are ASCII digits and byte 7 is 0; otherwise it      *)
(* returns InvalidMagic with the 8 bytes read, having read nothing else.   *)
C5_MagicWellFormed ==
    /\ raw.magic[1] = 100 /\ raw.magic[2] = 101 /\ raw.magic[3] = 120 /\ raw.magic[4] = 10
    /\ \A i \in 5..7 : raw.magic[i] \in 48..57
    /\ raw.magic[8] = 0

C5_MagicCheck ==
    Read("magic")
    => IF C5_MagicWellFormed
          THEN hres.kind # "InvalidMagic" /\ (Done \/ pc = "checksum" \/ pos > 8)
          ELSE /\ Done /\ hres = invalid_magic(raw.magic) /\ pos = 8
               /\ \A f \in FieldNames \ {"magic"} : ~Read(f)

(* a digit replaced by 0x41 *)
C5_Witness ==
    /\ Done /\ hres.kind = "InvalidMagic"
    /\ SubSeq(raw.magic, 1, 4) = <<100, 101, 120, 10>> /\ raw.magic[8] = 0
    /\ raw.magic[5] = 48 /\ raw.magic[6] = 51 /\ raw.magic[7] = 65

---------------------------------------------------------------------------
(* C6: with tag 0x78563412 the checksum, file_size and header_size are the *)
(* byte-swap of their little-endian reading and every later field is read  *)
(* big endian; with tag 0x12345678 every field is its little-endian        *)
(* reading; any other tag yields InvalidEndianTag.                         *)
EarlyFields == {"checksum", "file_size", "header_size"}

LateFields ==
    FieldNames \ ({"magic", "signature", "endian_tag"} \cup EarlyFields)

C6_Swapped(x) == BE32(EncLE(x))

C6_EndianResolution ==
    Read("endian_tag")
    => CASE TagOf = REVERSE_ENDIAN_CONSTANT ->
              /\ \A f \in EarlyFields :
                    /\ loc[f] = C6_Swapped(LE32(raw[f]))
                    /\ hres.kind = "Ok" => hres.header[f] = C6_Swapped(LE32(raw[f]))
              /\ \A f \in LateFields : Read(f) => loc[f] = BE32(raw[f])
              /\ hres.kind # "InvalidEndianTag"
         [] TagOf = ENDIAN_CONSTANT ->
              /\ \A f \in EarlyFields :
                    /\ loc[f] = LE32(raw[f])
                    /\ hres.kind = "Ok" => hres.header[f] = LE32(raw[f])
              /\ \A f \in LateFields : Read(f) => loc[f] = LE32(raw[f])
              /\ hres.kind # "InvalidEndianTag"
         [] OTHER -> Done /\ hres = invalid_endian_tag(TagOf)

(* an accepted big-endian header with a non-empty table *)
C6_Witness ==
    /\ Done /\ hres.kind = "Ok"
    /\ raw.endian_tag = <<18, 52, 86, 120>>
    /\ raw.file_size = <<0, 0, 0, 116>> /\ hres.header.file_size = 116
    /\ raw.checksum = <<1, 2, 3, 4>> /\ hres.header.checksum = 16909060
    /\ hres.header.string_ids_size = 1

---------------------------------------------------------------------------
(* C7: the running offset starts at 0x70 and advances after each table by  *)
(* size x width (4, 4, 12, 8, 8, 32); an empty table with a non-zero       *)
(* offset, and a non-empty table whose offset is not the running offset,   *)
(* yield MismatchedOffsets naming the table's offset field with the        *)
(* declared and the expected offset.                                       *)
RECURSIVE RunningOffset(_)
RunningOffset(i) ==
    IF i = 1 THEN 112
    ELSE RunningOffset(i - 1) + Declared(TableSizeFields[i - 1]) * RecordWidth[i - 1]

StageAfterTable == <<"type_ids", "prototype_ids", "field_ids", "method_ids",
                     "class_defs", "data_size">>

C7_RunningOffset ==
    /\ pc \in {"link", "map_offset", "string_ids"} => loc.current_offset = 112
    /\ pc = "data_offset" => loc.current_offset = RunningOffset(7)
    /\ \A i \in 1..6 :
          /\ pc = StageAfterTable[i] => loc.current_offset = RunningOffset(i + 1)
          /\ Read(TableSizeFields[i]) =>
                LET size == Declared(TableSizeFields[i])
                    offset == Declared(TableOffsetFields[i])
                    name == TableOffsetFields[i]
                IN IF size = 0 /\ offset # 0
                      THEN Done /\ hres = mismatched_offsets(name, offset, 0)
                   ELSE IF size > 0 /\ offset # RunningOffset(i)
                      THEN Done /\ hres = mismatched_offsets(name, offset, RunningOffset(i))
                   ELSE /\ hres # mismatched_offsets(name, offset, 0)
                        /\ hres # mismatched_offsets(name, offset, RunningOffset(i))

(* the class definitions misplaced after one prototype record *)
C7_Witness ==
    /\ Done /\ Read("class_defs_size")
    /\ Declared("prototype_ids_size") = 1 /\ Declared("class_defs_size") = 1
    /\ hres = mismatched_offsets("class_defs_offset", 128, 124)

---------------------------------------------------------------------------
(* C8: in a returned Header a table's offset is None exactly when its size *)
(* is 0 and Some exactly when its size is > 0; link_size and link_offset   *)
(* are both None or both Some.                                             *)
C8_OptionalOffsets ==
    (Done /\ hres.kind = "Ok")
    => /\ \A i \in 1..6 :
             LET size == hres.header[TableSizeFields[i]]
                 offset == hres.header[TableOffsetFields[i]]
             IN /\ offset = None <=> size = 0
                /\ size > 0 => offset = Some(Declared(TableOffsetFields[i]))
       /\ hres.header.link_size = None <=> hres.header.link_offset = None

(* a Header with an absent and a present table and a link section *)
C8_Witness ==
    /\ Done /\ hres.kind = "Ok"
    /\ hres.header.string_ids_size = 0 /\ hres.header.string_ids_offset = None
    /\ hres.header.type_ids_size = 1 /\ hres.header.type_ids_offset = Some(112)
    /\ hres.header.link_size # None /\ hres.header.link_offset # None

---------------------------------------------------------------------------
(* C9: a header without link section that passes every other check is     *)
(* accepted only if data_offset + data_size = file_size; otherwise it      *)
(* fails with the Header error "data section must end at the EOF".         *)
C9_DataAtEof ==
    (/\ Done /\ Read("data_offset")
     /\ Declared("link_size") = 0
     /\ Declared("map_offset") >= Declared("data_offset")
     /\ Declared("map_offset") <= Declared("data_offset") + Declared("data_size"))
    => IF Declared("data_offset") + Declared("data_size") = Declared("file_size")
          THEN hres.kind = "Ok"
          ELSE hres = DataNotAtEof

(* the data section ends one byte after the declared end of file *)
C9_Witness ==
    /\ Done /\ Read("data_offset") /\ Declared("link_size") = 0
    /\ Declared("data_offset") + Declared("data_size") = Declared("file_size") + 1
    /\ hres = DataNotAtEof

(* the data section ends one byte before the declared end of file *)
C9_WitnessBefore ==
    /\ Done /\ Read("data_offset") /\ Declared("link_size") = 0
    /\ Declared("data_offset") + Declared("data_size") = Declared("file_size") - 1
    /\ hres = DataNotAtEof

---------------------------------------------------------------------------
(* C10: no returned Header has map_offset 0 or outside                     *)
(* [data_offset, data_offset + data_size]; an input with such a map_offset *)
(* fails, whatever the other fields.                                       *)
C10_MapOffsetInData ==
    /\ (Done /\ hres.kind = "Ok")
          => /\ hres.header.map_offset # 0
             /\ hres.header.map_offset >= hres.header.data_offset
             /\ hres.header.map_offset <= hres.header.data_offset + hres.header.data_size
    /\ (Done /\ Read("map_offset") /\ Declared("map_offset") = 0)
          => hres = MapOffsetZero
    /\ (Done /\ Read("data_offset")
        /\ (\/ Declared("map_offset") < Declared("data_offset")
            \/ Declared("map_offset") > Declared("data_offset") + Declared("data_size")))
          => hres = MapOffsetOutsideData(Declared("data_offset"),
                                         Declared("data_offset") + Declared("data_size"),
                                         Declared("map_offset"))

(* map_offset past the data section of an otherwise consistent header *)
C10_Witness ==
    /\ Done /\ Read("data_offset") /\ Declared("link_size") = 0
    /\ Declared("data_offset") = 112 /\ Declared("data_size") = 0
    /\ Declared("file_size") = 112 /\ Declared("map_offset") = 116
    /\ hres = MapOffsetOutsideData(112, 112, 116)

---------------------------------------------------------------------------
(* C11: every call of Header::from_file and of Dex::new, for either value  *)
(* of verify and every file, returns a value or an Error to its caller:    *)
(* no call that has ended has ended in a panic.                            *)
C11_AlwaysReturns ==
    (Done /\ entry \in {"from_file", "dex_new"}) => result.kind # "Panic"

---------------------------------------------------------------------------
(* The bytes read so far are those of the minimal header. *)
C12_MinimalSoFar ==
    /\ Read("magic") => is_magic_valid(raw.magic)
    /\ Read("endian_tag") =>
          /\ TagValid
          /\ Declared("header_size") = 112 /\ Declared("file_size") = 112
    /\ \A f \in {"link_size", "link_offset", "data_size"} : Read(f) => Declared(f) = 0
    /\ \A i \in 1..6 :
          /\ Read(TableSizeFields[i]) => Declared(TableSizeFields[i]) = 0
          /\ Read(TableOffsetFields[i]) => Declared(TableOffsetFields[i]) = 0
    /\ \A f \in {"map_offset", "data_offset"} : Read(f) => Declared(f) = 112

(* C12: the minimal 0x70-byte header (valid magic and endian tag,          *)
(* header_size = file_size = 0x70, six empty tables with offset 0, no      *)
(* link, data_size 0, data_offset = map_offset = 0x70) is accepted by      *)
(* from_reader, and by from_file without verification on a file of 0x70    *)
(* bytes; the Header returned carries the declared values and reports all  *)
(* six table offsets and the link section as absent.  No check fails on    *)
(* the way: while the bytes read are those of the minimal header,          *)
(* from_reader has returned no error but the I/O error of a stream shorter *)
(* than 0x70 bytes.                                                        *)
C12_MinimalAccepted ==
    /\ C12_MinimalSoFar
          => /\ hres.kind \in {"None", "Ok", "Io"}
             /\ hres.kind = "Io" => file_len < HEADER_SIZE
             /\ hres.kind = "None" => ~Read("data_offset")
    /\ (MinimalButFileSize /\ Declared("file_size") = 112)
          => /\ hres.kind = "Ok"
             /\ \A i \in 1..6 : /\ hres.header[TableOffsetFields[i]] = None
                                /\ hres.header[TableSizeFields[i]] = 0
             /\ hres.header.link_size = None /\ hres.header.link_offset = None
             /\ hres.header.magic = raw.magic
             /\ hres.header.file_size = 112 /\ hres.header.header_size = 112
             /\ hres.header.data_size = 0 /\ hres.header.data_offset = 112
             /\ hres.header.map_offset = 112
             /\ hres.header.endian_tag = TagOf
             /\ pos = HEADER_SIZE
             /\ entry = "from_reader" => (Done /\ result = hres)
             /\ (entry = "from_file" /\ ~verify /\ file_len = 112) => (Done /\ result = hres)

(* from_file without verification returned the Header of the minimal       *)
(* big-endian header in a file of 0x70 bytes                               *)
C12_Witness ==
    /\ Done /\ entry = "from_file" /\ ~verify /\ file_len = 112
    /\ MinimalButFileSize /\ Declared("file_size") = 112
    /\ TagOf = REVERSE_ENDIAN_CONSTANT
    /\ result.kind = "Ok" /\ result.header.string_ids_offset = None

---------------------------------------------------------------------------
(* The rules of the header in the order from_reader checks them, each      *)
(* stated on the bytes of the file: 1 magic, 2 endian tag, 3 header_size,  *)
(* 4 file_size, 5 link_size = 0 requires link_offset = 0, 6 map_offset is  *)
(* not 0, 7..12 the offset rule of the six tables, 13 data_size is a       *)
(* multiple of 4, 14 map_offset lies in the data section, 15 without a     *)
(* link the data section ends at file_size, 16 with a link link_offset is  *)
(* not 0.  C14_Need[k] is the last field rule k reads and C14_StopsAt[k]   *)
(* the stream position just after it.                                      *)
C14_Need ==
    <<"magic", "endian_tag", "endian_tag", "endian_tag", "link_offset", "map_offset",
      "string_ids_offset", "type_ids_offset", "prototype_ids_offset",
      "field_ids_offset", "method_ids_offset", "class_defs_offset",
      "data_size", "data_offset", "data_offset", "data_offset">>

C14_StopsAt == <<8, 44, 44, 44, 52, 56, 64, 72, 80, 88, 96, 104, 108, 112, 112, 112>>

C14_TableViolated(i) ==
    \/ Declared(TableSizeFields[i]) = 0 /\ Declared(TableOffsetFields[i]) # 0
    \/ Declared(TableSizeFields[i]) > 0 /\ Declared(TableOffsetFields[i]) # RunningOffset(i)

C14_Violated(k) ==
    /\ Read(C14_Need[k])
    /\ CASE k = 1 -> ~is_magic_valid(raw.magic)
         [] k = 2 -> ~TagValid
         [] k = 3 -> TagValid /\ Declared("header_size") # 112
         [] k = 4 -> TagValid /\ Declared("file_size") < 112
         [] k = 5 -> Declared("link_size") = 0 /\ Declared("link_offset") # 0
         [] k = 6 -> Declared("map_offset") = 0
         [] k \in 7..12 -> C14_TableViolated(k - 6)
         [] k = 13 -> Declared("data_size") % 4 # 0
         [] k = 14 -> \/ Declared("map_offset") < Declared("data_offset")
                      \/ Declared("map_offset") >
                            Declared("data_offset") + Declared("data_size")
         [] k = 15 -> /\ Declared("link_size") = 0
                      /\ Declared("data_offset") + Declared("data_size")
                            # Declared("file_size")
         [] k = 16 -> Declared("link_size") # 0 /\ Declared("link_offset") = 0

(* the error from_reader returns for rule k *)
C14_Reports(k) ==
    CASE k = 1 -> hres = invalid_magic(raw.magic)
      [] k = 2 -> hres = invalid_endian_tag(TagOf)
      [] k = 3 -> hres = invalid_header_size(Declared("header_size"))
      [] k = 4 -> hres = invalid_file_size(0, Some(Declared("file_size")))
      [] k = 5 -> hres = mismatched_offsets("link_offset", Declared("link_offset"), 0)
      [] k = 6 -> hres = MapOffsetZero
      [] k \in 7..12 ->
            hres = mismatched_offsets(
                      TableOffsetFields[k - 6], Declared(TableOffsetFields[k - 6]),
                      IF Declared(TableSizeFields[k - 6]) = 0 THEN 0
                      ELSE RunningOffset(k - 6))
      [] k = 13 -> hres = DataSizeNotMultiple(Declared("data_size"))
      [] k = 14 -> hres = MapOffsetOutsideData(
                             Declared("data_offset"),
                             Declared("data_offset") + Declared("data_size"),
                             Declared("map_offset"))
      [] k = 15 -> hres = DataNotAtEof
      [] k = 16 -> /\ hres.kind = "MismatchedOffsets"
                   /\ "field" \in DOMAIN hres
                   /\ hres.field = "link_offset" /\ hres.actual = 0

(* C14 as stated: the six table offset rules are checked before the rules  *)
(* link_size = 0 requires link_offset = 0 and map_offset is not 0, so when *)
(* from_reader reports one of these two errors the six table descriptors   *)
(* have been read and none of them breaks its offset rule.                 *)
C14_AsStated ==
    (hres = MapOffsetZero \/ (C14_Violated(5) /\ C14_Reports(5)))
    => \A i \in 1..6 : Read(TableOffsetFields[i]) /\ ~C14_TableViolated(i)

(* C14: from_reader stops at the first violated rule in the order magic,   *)
(* endian tag, header_size, file_size, link_size = 0 requires link_offset  *)
(* = 0, map_offset is not 0, the six table offset rules (strings, types,   *)
(* prototypes, fields, methods, class definitions), data_size multiple of  *)
(* 4, map_offset within the data section, then the end of file and link    *)
(* placement rules: it returns the error of that rule and has read nothing *)
(* past the field the rule needs.  When none of the sixteen rules is       *)
(* violated the result is a Header or an error of the link placement.      *)
C14_FirstViolationReported ==
    LET violated == {k \in 1..16 : C14_Violated(k)}
    IN /\ violated # {}
             => LET first == CHOOSE k \in violated : \A j \in violated : k <= j
                IN /\ C14_Reports(first)
                   /\ pos = C14_StopsAt[first]
                   /\ entry \in {"from_reader", "from_file"} => Done
                   /\ entry = "from_reader" => result = hres
       /\ (violated = {} /\ Read("data_offset"))
             => \/ hres.kind = "Ok"
                \/ hres = LinkNotAtEof
                \/ /\ hres.kind = "MismatchedOffsets" /\ "field" \in DOMAIN hres
                   /\ hres.field = "link_offset"

(* map_offset before the data section and a data section that does not    *)
(* end at file_size: the map_offset error is the one returned              *)
C14_Witness ==
    /\ Done /\ Read("data_offset")
    /\ C14_Violated(14) /\ C14_Violated(15)
    /\ \A j \in 1..13 : ~C14_Violated(j)
    /\ hres = MapOffsetOutsideData(116, 116, 112)

---------------------------------------------------------------------------
(* The rules of protocol steps 1-8 on the bytes of a header read to its    *)
(* end, with the link placement as the protocol states it.                 *)
C15_RulesHold ==
    /\ Read("data_offset")
    /\ \A k \in 1..16 : ~C14_Violated(k)
    /\ Declared("link_size") # 0
          => /\ Declared("link_offset") = Declared("data_offset") + Declared("data_size")
             /\ Declared("link_offset") + Declared("link_size") = Declared("file_size")

(* C15: for every header that satisfies all the rules of protocol steps    *)
(* 1-8, from_reader succeeds whether or not data_offset equals the running *)
(* offset reached after the class definitions, and the Header returned     *)
(* carries the declared data_offset.                                       *)
C15_DataOffsetTolerated ==
    C15_RulesHold
    => /\ hres.kind = "Ok"
       /\ hres.header.data_offset = Declared("data_offset")

---------------------------------------------------------------------------
(* Dex::new (verify = false) is reading the tables: from_reader returned a *)
(* Header to it.                                                           *)
C16_InDex == entry = "dex_new" /\ ~verify /\ hres.kind = "Ok"

DexStage ==
    <<"dex_strings", "dex_types", "dex_prototypes", "dex_fields", "dex_methods",
      "dex_classes">>

C16_Size(t) == Declared(TableSizeFields[t])

C16_Count(t) == Len(dex.ids[t])

RECURSIVE C16_BytesUpTo(_)
C16_BytesUpTo(t) ==
    IF t = 0 THEN 0 ELSE C16_BytesUpTo(t - 1) + C16_Size(t) * RecordWidth[t]

RECURSIVE C16_BytesRead(_)
C16_BytesRead(t) ==
    IF t = 0 THEN 0 ELSE C16_BytesRead(t - 1) + C16_Count(t) * RecordWidth[t]

(* The integer held by the `width` bytes of a record from byte `start` on, *)
(* byte k of a record holding k: most significant byte last when the file  *)
(* is little endian, first when it is big endian.                          *)
RECURSIVE C16_Value(_, _, _)
C16_Value(start, width, little) ==
    IF width = 0 THEN 0
    ELSE IF little
       THEN start + 256 * C16_Value(start + 1, width - 1, little)
       ELSE (start + width - 1) + 256 * C16_Value(start, width - 1, little)

(* the record of table t: its integers by first byte and width in bytes *)
C16_Fields ==
    <<<<<<1, 4>>>>, <<<<1, 4>>>>,
      <<<<1, 4>>, <<5, 4>>, <<9, 4>>>>,
      <<<<1, 2>>, <<3, 2>>, <<5, 4>>>>,
      <<<<1, 2>>, <<3, 2>>, <<5, 4>>>>,
      <<<<1, 4>>, <<5, 4>>, <<9, 4>>, <<13, 4>>, <<17, 4>>, <<21, 4>>, <<25, 4>>,
        <<29, 4>>>>>>

C16_Record(t) ==
    [j \in 1..Len(C16_Fields[t]) |->
        C16_Value(C16_Fields[t][j][1], C16_Fields[t][j][2], TagOf = ENDIAN_CONSTANT)]

(* C16 as stated, its last part: when the file ends before all the records *)
(* the header declares, Dex::new (verify = false) fails with the I/O error.*)
C16_AsStated ==
    (Done /\ C16_InDex /\ file_len < HEADER_SIZE + C16_BytesUpTo(6))
    => result = IoError

(* C16: a successful from_reader has consumed exactly 0x70 bytes; Dex::new *)
(* (verify = false) then reads the tables in the order strings, types,     *)
(* prototypes, fields, methods, class definitions, a table being started   *)
(* only when the ones before it hold as many records as the header         *)
(* declares, with 4, 4, 12, 8, 8, 32 bytes per record decoded in the       *)
(* header's byte order; the first record of a non-empty table is read at   *)
(* the offset the header declares for it; the tables are complete when the *)
(* loops are left; no record is read past the end of the file, and the     *)
(* call fails with the I/O error only when fewer bytes than one record     *)
(* remain for a table that is not complete.  When the file ends before all *)
(* declared records, the call fails with the I/O error unless              *)
(* ClassDefData::new rejected a class definition read before the end.      *)
C16_TablesReadInOrder ==
    /\ (hres.kind = "Ok" /\ ~C16_InDex) => pos = HEADER_SIZE
    /\ (C16_InDex /\ pc = "dex_strings" /\ dex.n = 0) => pos = HEADER_SIZE
    /\ C16_InDex =>
          /\ pos = HEADER_SIZE + C16_BytesRead(6)
                     + (IF result = ClassDefRejected THEN RecordWidth[6] ELSE 0)
          /\ dex.offset = HEADER_SIZE + C16_BytesRead(6)
          /\ \A t \in 1..6 :
                /\ C16_Count(t) <= C16_Size(t)
                /\ C16_Count(t) > 0 => \A u \in 1..(t - 1) : C16_Count(u) = C16_Size(u)
                /\ \A i \in 1..C16_Count(t) : dex.ids[t][i] = C16_Record(t)
                /\ pc = DexStage[t] =>
                      /\ C16_Count(t) = dex.n
                      /\ \A u \in 1..(t - 1) : C16_Count(u) = C16_Size(u)
                      /\ (dex.n = 0 /\ C16_Size(t) > 0) =>
                            /\ pos = Declared(TableOffsetFields[t])
                            /\ hres.header[TableOffsetFields[t]] = Some(pos)
          /\ (pc = "dex_end" \/ result.kind = "Panic") =>
                \A t \in 1..6 : C16_Count(t) = C16_Size(t)
          /\ pos <= file_len
          /\ Done => result \in {IoError, ClassDefRejected, Panic("unimplemented")}
          /\ result = IoError =>
                \E t \in 1..6 :
                   /\ C16_Count(t) < C16_Size(t)
                   /\ \A u \in 1..(t - 1) : C16_Count(u) = C16_Size(u)
                   /\ file_len - pos < RecordWidth[t]
          /\ result = ClassDefRejected =>
                /\ C16_Count(6) < C16_Size(6)
                /\ \A u \in 1..5 : C16_Count(u) = C16_Size(u)
          /\ (Done /\ file_len < HEADER_SIZE + C16_BytesUpTo(6)) =>
                result \in {IoError, ClassDefRejected}

(* a big-endian file of 0x94 bytes with one string id and one class        *)
(* definition has been read to its end                                     *)
C16_Witness ==
    /\ C16_InDex /\ pc = "dex_end" /\ TagOf = REVERSE_ENDIAN_CONSTANT
    /\ C16_Size(1) = 1 /\ C16_Size(6) = 1
    /\ dex.ids[1] = <<<<16909060>>>>
    /\ Len(dex.ids[6]) = 1 /\ dex.ids[6][1][8] = 488513312
    /\ pos = 148

(* the file ends inside the second of two class definitions *)
C16_WitnessTruncated ==
    /\ Done /\ C16_InDex /\ result = IoError
    /\ C16_Size(6) = 2 /\ C16_Count(6) = 1 /\ pos = 144

(* one field id and one method id of a little-endian file *)
C16_WitnessShorts ==
    /\ C16_InDex /\ pc = "dex_end" /\ TagOf = ENDIAN_CONSTANT
    /\ dex.ids[4] = <<<<513, 1027, 134678021>>>>
    /\ dex.ids[5] = <<<<513, 1027, 134678021>>>>
    /\ pos = 128

====
